---- MODULE Spec2Model ----
(***************************************************************************)
(* Model of the "user" command-line plugin (src/src/omero/plugins/user.py): *)
(* the sub-commands add, list, password, email, joingroup and leavegroup,   *)
(* each one invocation = one action.  An invocation is recorded with the    *)
(* remote calls it issued (in order), the lines it wrote to the value and   *)
(* error channels, and how it ended.  The administrative service is the     *)
(* external collaborator; its state is the experimenter table and the       *)
(* group-experimenter links.                                                *)
(*                                                                          *)
(* Text is modelled as a sequence of string pieces: "%s is %s" % (a, b) is  *)
(* <<a, " is ", b>>, and string concatenation is \o.                        *)
(***************************************************************************)
EXTENDS Integers, Sequences, FiniteSets, TLC

VARIABLES
    experimenters,  \* server: login -> number of experimenter records with that login
    links,          \* server: <<gid, uid>> -> "none" | "member" | "owner"
    passwords,      \* server: login -> the credential of that experimenter
    directory,      \* server: the experimenter records lookupExperimenters() returns
    last,           \* the invocation that just ended
    again           \* history: the invocation before `last` was the same command with
                    \* the same arguments, and it ended normally

vars == <<experimenters, links, passwords, directory, last, again>>

(***************************************************************************)
(* Bounds of the model.                                                     *)
(***************************************************************************)
\* longest list of group arguments (member_of of add, GROUP of joingroup/leavegroup)
MaxGroupArgs == 2
\* most group-experimenter map entries in the records lookupExperimenters() returns
MaxLinks == 2

(***************************************************************************)
(* Generic helpers.                                                         *)
(***************************************************************************)
\* Python's None
None == "<None>"

Range(s) == {s[i] : i \in DOMAIN s}

\* the non-empty argument lists (argparse nargs="+") over S, up to the bound
ArgLists(S) == UNION {[1..n -> S] : n \in 1..MaxGroupArgs}

RECURSIVE SelectIdx(_, _, _)
\* indices i of s, ascending, for which keep[i]
SelectIdx(s, keep, i) ==
    IF i > Len(s) THEN <<>>
    ELSE (IF keep[i] THEN <<s[i]>> ELSE <<>>) \o SelectIdx(s, keep, i + 1)

RECURSIVE Flatten(_)
\* concatenation of a sequence of sequences
Flatten(ss) == IF ss = <<>> THEN <<>> ELSE Head(ss) \o Flatten(Tail(ss))

\* number of positions of s holding an element of S
Count(s, S) == Cardinality({i \in DOMAIN s : s[i] \in S})

(***************************************************************************)
(* The administrative service (external collaborator).                      *)
(***************************************************************************)
\* getSecurityRoles(): the ids of the system group and of the default user group
SystemGroupId == 0
UserGroupId == 1

\* the groups the server knows, by name
GroupByName == [system |-> SystemGroupId, user |-> UserGroupId, g2 |-> 2, g3 |-> 3]

\* str(id) and its inverse for the ids of the model
IdStr == [i \in 0..6 |-> <<"0", "1", "2", "3", "4", "5", "6">>[i + 1]]
IdOfStr(s) == CHOOSE i \in DOMAIN IdStr : IdStr[i] = s
IsDigits(s) == \E i \in DOMAIN IdStr : IdStr[i] = s

\* the experimenters the server may hold, by login
ExperimenterId == [root |-> 0, alice |-> 5, bob |-> 6]

\* one remote call: operation, string argument, credential, group, id list, result
Call(op, str, pw, group, ids, res) ==
    [op |-> op, str |-> str, pw |-> pw, group |-> group, ids |-> ids, res |-> res]

\* how an invocation ended: normally, through ctx.die(code, msg), or by an exception
\* nobody caught
Ended(cmd, args, calls, out, err, status, code) ==
    [cmd |-> cmd, args |-> args, calls |-> calls, out |-> out, err |-> err,
     status |-> status, code |-> code]

\* ctx.die(code, msg): the message goes to the error channel and the command ends
Die(cmd, args, calls, out, err, code, msg) ==
    Ended(cmd, args, calls, out, Append(err, msg), "die", code)

\* the invocation now starting repeats the one that just ended, which ended normally
Repeats(cmd, args) == last.cmd = cmd /\ last.args = args /\ last.status = "ok"

CreateOps == {"createExperimenter", "createExperimenterWithPassword"}

(***************************************************************************)
(* add                                                                      *)
(***************************************************************************)
AddLogins == {"alice"}
AddGroupNames == {"g2", "g3", "nosuch"}
AddPasswords == {None, "secret"}
\* what the create call can do: return the new id, or signal a constraint violation,
\* another validation failure, or a security violation
CreateOutcomes == {"ok", "ConstraintViolation", "ValidationException", "SecurityViolation"}

\* admin.lookupGroup(name): the group id, or -1 for the ApiUsageException
LookupGroup(name) ==
    IF name \in DOMAIN GroupByName THEN GroupByName[name] ELSE -1

\* a resolution that passes over the names the server does not know
RECURSIVE LookupGroupCallsSkip(_)
LookupGroupCallsSkip(names) ==
    IF names = <<>> THEN <<>>
    ELSE (IF LookupGroup(Head(names)) = -1 THEN <<>>
          ELSE <<Call("lookupGroup", Head(names), None, LookupGroup(Head(names)), <<>>, "ok")>>)
         \o LookupGroupCallsSkip(Tail(names))

\* groups = [admin.lookupGroup(group) for group in args.member_of]: the calls issued,
\* which stop at the first name that does not resolve
RECURSIVE LookupGroupCalls(_)
LookupGroupCalls(names) ==
    IF names = <<>> THEN <<>>
    ELSE IF LookupGroup(Head(names)) = -1
         THEN <<Call("lookupGroup", Head(names), None, -1, <<>>, "ApiUsageException")>>
         ELSE <<Call("lookupGroup", Head(names), None, LookupGroup(Head(names)), <<>>, "ok")>>
              \o LookupGroupCalls(Tail(names))

\* the branch taken on the result of lookupExperimenter (usr is TRUE when a record came
\* back): "exists" returns at once, "die" ends with exit code 3, "create" goes on
AddExistingNoReturn(usr, ignore_existing) ==
    IF usr /\ ~ignore_existing THEN "die" ELSE "create"

AddExistingNoDie(usr, ignore_existing) ==
    IF usr /\ ignore_existing THEN "exists" ELSE "create"

AddExisting(usr, ignore_existing) ==
    IF usr THEN (IF ignore_existing THEN "exists" ELSE "die") ELSE "create"

\* the group list handed to the create call: the resolved member_of groups, then the
\* user group, then the system group for an admin; the first is popped as the primary
AddGroupsUserFirst(resolved, admin) ==
    LET groups == <<UserGroupId>> \o resolved
                  \o (IF admin THEN <<SystemGroupId>> ELSE <<>>)
    IN  [group |-> Head(groups), groups |-> Tail(groups)]

AddGroups(resolved, admin) ==
    LET groups == resolved \o <<UserGroupId>>
                  \o (IF admin THEN <<SystemGroupId>> ELSE <<>>)
    IN  [group |-> Head(groups), groups |-> Tail(groups)]

\* a create that is issued again after it failed
AddCreateRetry(args, calls, outcome) ==
    LET g    == AddGroups([i \in DOMAIN args.member_of |-> LookupGroup(args.member_of[i])],
                          args.admin)
        op   == IF args.userpassword = None
                THEN "createExperimenter" ELSE "createExperimenterWithPassword"
        call == Call(op, args.username, args.userpassword, g.group, g.groups, outcome)
    IN  IF outcome = "ok"
        THEN Ended("add", args, Append(calls, call),
                   <<<<"Added user ", IdStr[ExperimenterId[args.username]]>>>>,
                   <<>>, "ok", 0)
        ELSE Die("add", args, calls \o <<call, call>>, <<>>, <<>>, 67, <<"message">>)

\* a create whose failures all end with the same exit code
AddCreateOneCode(args, calls, outcome) ==
    LET g    == AddGroups([i \in DOMAIN args.member_of |-> LookupGroup(args.member_of[i])],
                          args.admin)
        op   == IF args.userpassword = None
                THEN "createExperimenter" ELSE "createExperimenterWithPassword"
        call == Call(op, args.username, args.userpassword, g.group, g.groups, outcome)
    IN  IF outcome = "ok"
        THEN Ended("add", args, Append(calls, call),
                   <<<<"Added user ", IdStr[ExperimenterId[args.username]]>>>>,
                   <<>>, "ok", 0)
        ELSE Die("add", args, Append(calls, call), <<>>, <<>>, 67, <<"message">>)

\* the create call and what follows it
AddCreate(args, calls, outcome) ==
    LET g    == AddGroups([i \in DOMAIN args.member_of |-> LookupGroup(args.member_of[i])],
                          args.admin)
        op   == IF args.userpassword = None
                THEN "createExperimenter" ELSE "createExperimenterWithPassword"
        pw   == args.userpassword
        id   == IdStr[ExperimenterId[args.username]]
        call == Call(op, args.username, pw, g.group, g.groups, outcome)
        all  == Append(calls, call)
    IN  CASE outcome = "ok" ->
               Ended("add", args, all,
                     <<IF args.userpassword = None
                       THEN <<"Added user ", id>>
                       ELSE <<"Added user ", id, " with password">>>>,
                     <<>>, "ok", 0)
          [] outcome = "ConstraintViolation" ->
               Die("add", args, all, <<>>, <<>>, 66,
                   <<"User already exists: ", args.username>>)
          [] outcome = "ValidationException" ->
               Die("add", args, all, <<>>, <<>>, 67,
                   <<"Unknown ValidationException: ", "message">>)
          [] outcome = "SecurityViolation" ->
               Die("add", args, all, <<>>, <<>>, 68,
                   <<"Security violation: ", "message">>)

\* one invocation of add against a server holding `exps`
AddRun(exps, args, outcome) ==
    LET usr     == exps[args.username] > 0
        id      == IdStr[ExperimenterId[args.username]]
        lookup  == Call("lookupExperimenter", args.username, None, -1, <<>>,
                        IF usr THEN "ok" ELSE "ApiUsageException")
        branch  == AddExisting(usr, args.ignore_existing)
        exists  == <<"User exists: ", args.username, " (id=", id, ")">>
        glook   == LookupGroupCalls(args.member_of)
        roles   == Call("getSecurityRoles", "", None, -1, <<>>, "ok")
    IN  CASE branch = "exists" ->
               Ended("add", args, <<lookup>>, <<exists>>, <<>>, "ok", 0)
          [] branch = "die" ->
               Die("add", args, <<lookup>>, <<>>, <<>>, 3, exists)
          [] OTHER ->
               IF \E i \in DOMAIN glook : glook[i].res # "ok"
               THEN Die("add", args, <<lookup>> \o glook, <<>>, <<>>, 68, <<"message">>)
               ELSE AddCreate(args, <<lookup>> \o glook \o <<roles>>, outcome)

\* the outcomes the server can give the create call of this invocation: a login it
\* already holds is a constraint violation (for a login it did not hold at the lookup,
\* another client created it in between); an invocation that never reaches the create
\* call has nothing to choose
ServerCreateOutcomes(exps, args) ==
    IF exps[args.username] > 0 THEN {"ConstraintViolation"}
    ELSE IF \E i \in DOMAIN args.member_of : LookupGroup(args.member_of[i]) = -1
         THEN {"ok"}
         ELSE CreateOutcomes

AddArgs ==
    [username : AddLogins, ignore_existing : BOOLEAN, userpassword : AddPasswords,
     admin : BOOLEAN, member_of : ArgLists(AddGroupNames)]

Created(r) == \E i \in DOMAIN r.calls : r.calls[i].op \in CreateOps /\ r.calls[i].res = "ok"

\* the create call of r found the login taken
Duplicate(r) ==
    \E i \in DOMAIN r.calls :
        r.calls[i].op \in CreateOps /\ r.calls[i].res = "ConstraintViolation"

\* the server's experimenter table after the calls of r: a create call that returns
\* adds a record, and one that signals a duplicate found a record of that login
ExperimentersAfter(exps, r) ==
    IF Created(r) THEN [exps EXCEPT ![r.args.username] = @ + 1]
    ELSE IF Duplicate(r) /\ exps[r.args.username] = 0
         THEN [exps EXCEPT ![r.args.username] = 1]
         ELSE exps

Add ==
    \E args \in AddArgs :
      \E outcome \in ServerCreateOutcomes(experimenters, args) :
        LET r == AddRun(experimenters, args, outcome)
        IN  /\ last' = r
            /\ again' = Repeats("add", args)
            /\ experimenters' = ExperimentersAfter(experimenters, r)
            /\ UNCHANGED <<links, passwords, directory>>

(***************************************************************************)
(* password                                                                 *)
(***************************************************************************)
\* self.ctx._event_context.userName: the login of the session
OwnName == "root"
\* what can be typed at a credential prompt
Credentials == {"pw1", "pw2"}
\* args.username (nargs="?"): absent, empty, or a login
PasswordArgs == [username : {None, "", "alice", "bob"}]

ChangeOps == {"changePassword", "changeUserPassword"}

\* client.sf.setSecurityPassword(own_pw): a security violation unless own_pw is the
\* credential of the session's own user
SetSecurityPassword(pws, own_pw) ==
    IF pws[OwnName] = own_pw THEN "ok" ELSE "SecurityViolation"

\* admin.changeUserPassword(login, pw): fails for a login the server does not hold
ChangeUserPassword(exps, login) ==
    IF exps[login] > 0 THEN "ok" ELSE "ApiUsageException"

\* the try/except around setSecurityPassword: TRUE when the command goes on to the
\* change of the password, FALSE when it ends in ctx.die(456, ...)
PasswordVerifiedIgnored(res) == TRUE

PasswordVerified(res) == res = "ok"

\* a change that is always of the caller's own password
PasswordChangeOwn(exps, args, pw) == Call("changePassword", "", pw, -1, <<>>, "ok")

\* the change call: changeUserPassword for a given username, changePassword otherwise
PasswordChange(exps, args, pw) ==
    IF args.username # None /\ args.username # ""
    THEN Call("changeUserPassword", args.username, pw, -1, <<>>,
              ChangeUserPassword(exps, args.username))
    ELSE Call("changePassword", "", pw, -1, <<>>, "ok")

\* one invocation of password: own_pw and pw are what is typed at the two prompts
PasswordRun(exps, pws, args, own_pw, pw) ==
    LET verify == Call("setSecurityPassword", "", own_pw, -1, <<>>,
                       SetSecurityPassword(pws, own_pw))
        said   == IF verify.res = "ok" THEN <<<<"Verified password.\n">>>> ELSE <<>>
        whose  == IF args.username # None /\ args.username # ""
                  THEN args.username ELSE OwnName
        change == PasswordChange(exps, args, pw)
    IN  IF ~PasswordVerified(verify.res)
        THEN Die("password", args, <<verify>>, said, <<>>, 456,
                 <<"SecurityViolation: Bad credentials">>)
        ELSE IF change.res = "ok"
             THEN Ended("password", args, <<verify, change>>,
                        said \o <<<<"Changing password for ", whose>>, <<"Password changed">>>>,
                        <<>>, "ok", 0)
             ELSE Ended("password", args, <<verify, change>>,
                        said \o <<<<"Changing password for ", whose>>>>,
                        <<>>, "raise", 1)

\* the server's credentials after the calls of r
PasswordsAfter(pws, r) ==
    LET done == {i \in DOMAIN r.calls : r.calls[i].op \in ChangeOps /\ r.calls[i].res = "ok"}
    IN  IF done = {} THEN pws
        ELSE LET c == r.calls[CHOOSE i \in done : TRUE]
             IN  [pws EXCEPT ![IF c.op = "changePassword" THEN OwnName ELSE c.str] = c.pw]

Password ==
    \E args \in PasswordArgs, own_pw \in Credentials, pw \in Credentials :
        LET r == PasswordRun(experimenters, passwords, args, own_pw, pw)
        IN  /\ last' = r
            /\ again' = Repeats("password", args)
            /\ passwords' = PasswordsAfter(passwords, r)
            /\ UNCHANGED <<experimenters, links, directory>>

(***************************************************************************)
(* joingroup and leavegroup                                                 *)
(***************************************************************************)
\* GROUP arguments: a group by name, by id, or a name the server does not know
GroupArgNames == {"g2", "3", "nosuch"}
\* --id / --name: neither (the session's own user), or the id of alice
UserSelectors == {[id |-> None, name |-> None], [id |-> "5", name |-> None]}
GroupArgs ==
    [user : UserSelectors, as_owner : BOOLEAN, GROUP : ArgLists(GroupArgNames)]

\* the groups whose links the model follows, and the users linked to them
LinkGroups == {2, 3}
LinkUsers == {ExperimenterId[l] : l \in DOMAIN ExperimenterId}

MutationOps ==
    {"addUsersToGroup", "addOwnersToGroup", "removeUsersFromGroup", "removeOwnersFromGroup"}

\* the login with this id, or None
LoginOfId(id) ==
    IF \E l \in DOMAIN ExperimenterId : ExperimenterId[l] = id
    THEN CHOOSE l \in DOMAIN ExperimenterId : ExperimenterId[l] = id
    ELSE None

\* parse_userid: find_user_by_id for --id, find_user_by_name for --name, and
\* find_user_by_name on the session's own name otherwise; uid is -1 when not found
ParseUserId(exps, sel) ==
    LET byId  == sel.id # None
        login == IF byId
                 THEN (IF IsDigits(sel.id) THEN LoginOfId(IdOfStr(sel.id)) ELSE None)
                 ELSE IF sel.name # None THEN sel.name ELSE OwnName
        found == login \in DOMAIN ExperimenterId /\ exps[login] > 0
    IN  [uid  |-> IF found THEN ExperimenterId[login] ELSE -1,
         call |-> Call(IF byId THEN "getExperimenter" ELSE "lookupExperimenter",
                       IF byId THEN sel.id ELSE login, None, -1,
                       IF found THEN <<ExperimenterId[login]>> ELSE <<>>,
                       IF found THEN "ok" ELSE "ApiUsageException")]

\* find_group(a, group, fatal = False): by id for digits, by name otherwise; the group
\* comes back with the users and owners it has now, gid is -1 when it is not found
FindGroup(lnk, group) ==
    LET byId == IsDigits(group)
        gid  == IF byId
                THEN (IF IdOfStr(group) \in LinkGroups THEN IdOfStr(group) ELSE -1)
                ELSE (IF group \in DOMAIN GroupByName /\ GroupByName[group] \in LinkGroups
                      THEN GroupByName[group] ELSE -1)
    IN  [gid  |-> gid,
         g    |-> IF gid = -1 THEN None
                  ELSE [id |-> gid,
                        users  |-> {u \in LinkUsers : lnk[<<gid, u>>] # "none"},
                        owners |-> {u \in LinkUsers : lnk[<<gid, u>>] = "owner"}],
         call |-> Call(IF byId THEN "getGroup" ELSE "lookupGroup", group, None, gid, <<>>,
                       IF gid = -1 THEN "ApiUsageException" ELSE "ok")]

\* list_groups: the groups that resolve, in argument order
ListGroupsFirstOnly(lnk, groups) ==
    LET found == [i \in DOMAIN groups |-> FindGroup(lnk, groups[i])]
    IN  IF found[1].gid # -1 THEN <<found[1].g>> ELSE <<>>

ListGroups(lnk, groups) ==
    LET found == [i \in DOMAIN groups |-> FindGroup(lnk, groups[i])]
    IN  SelectIdx([i \in DOMAIN groups |-> found[i].g],
                  [i \in DOMAIN groups |-> found[i].gid # -1], 1)

\* list.remove(x): without the first element equal to x
RECURSIVE Remove(_, _)
Remove(s, x) ==
    IF s = <<>> THEN <<>>
    ELSE IF Head(s) = x THEN Tail(s) ELSE <<Head(s)>> \o Remove(Tail(s), x)

\* the test of filter_groups on one group: TRUE when the change would do nothing
FilterSkipsNever(group, uid, owner, join) == FALSE

FilterSkipsUsersOnly(group, uid, owner, join) ==
    IF join THEN uid \in group.users ELSE uid \notin group.users

FilterSkips(group, uid, owner, join) ==
    LET uid_list == IF owner THEN group.owners ELSE group.users
    IN  IF join THEN uid \in uid_list ELSE uid \notin uid_list

\* filter_groups: walks a copy of the list, removes from the list each group on which
\* the change would do nothing, and says so; `todo` is what is left of the copy
RECURSIVE FilterGroups(_, _, _, _, _, _)
FilterGroups(todo, groups, out, uid, owner, join) ==
    IF todo = <<>> THEN [groups |-> groups, out |-> out]
    ELSE LET group    == Head(todo)
             relation == IF owner THEN "owner of" ELSE "in"
         IN  IF FilterSkips(group, uid, owner, join)
             THEN FilterGroups(Tail(todo), Remove(groups, group),
                               Append(out, <<IdStr[uid],
                                             IF join THEN " is already " ELSE " is not ",
                                             relation, " group ", IdStr[group.id]>>),
                               uid, owner, join)
             ELSE FilterGroups(Tail(todo), groups, out, uid, owner, join)

\* the mutation call of joingroup / leavegroup for one group
MutationOp(owner, join) ==
    IF join THEN (IF owner THEN "addOwnersToGroup" ELSE "addUsersToGroup")
    ELSE (IF owner THEN "removeOwnersFromGroup" ELSE "removeUsersFromGroup")

\* the server's link of uid to the group after one mutation call
LinkAfter(link, op) ==
    CASE op = "addUsersToGroup"       -> IF link = "none" THEN "member" ELSE link
      [] op = "addOwnersToGroup"      -> "owner"
      [] op = "removeUsersFromGroup"  -> "none"
      [] op = "removeOwnersFromGroup" -> IF link = "owner" THEN "member" ELSE link

RECURSIVE LinksAfter(_, _)
\* the server's links after a sequence of calls
LinksAfter(lnk, calls) ==
    IF calls = <<>> THEN lnk
    ELSE LET c == Head(calls)
         IN  LinksAfter(IF c.op \in MutationOps
                        THEN [lnk EXCEPT ![<<c.group, c.ids[1]>>] = LinkAfter(@, c.op)]
                        ELSE lnk,
                        Tail(calls))

\* one invocation of joingroup (join = TRUE) or leavegroup (join = FALSE)
GroupRun(cmd, exps, lnk, args, join) ==
    LET user   == ParseUserId(exps, args.user)
        found  == [i \in DOMAIN args.GROUP |-> FindGroup(lnk, args.GROUP[i])]
        lcalls == <<user.call>> \o [i \in DOMAIN found |-> found[i].call]
        warn   == SelectIdx([i \in DOMAIN found |-> <<"Unknown group: ", args.GROUP[i]>>],
                            [i \in DOMAIN found |-> found[i].gid = -1], 1)
        listed == ListGroups(lnk, args.GROUP)
        kept   == FilterGroups(listed, listed, <<>>, user.uid, args.as_owner, join)
        mcalls == [i \in DOMAIN kept.groups |->
                     Call(MutationOp(args.as_owner, join), "", None, kept.groups[i].id,
                          <<user.uid>>, "ok")]
    IN  IF user.uid = -1
        THEN Die(cmd, args, <<user.call>>, <<>>, <<>>, 1, <<"Unknown user">>)
        ELSE IF listed = <<>>
             THEN Die(cmd, args, lcalls, <<>>, warn, 1, <<"No group found">>)
             ELSE Ended(cmd, args, lcalls \o mcalls, kept.out, warn, "ok", 0)

JoinGroup ==
    \E args \in GroupArgs :
        LET r == GroupRun("joingroup", experimenters, links, args, TRUE)
        IN  /\ last' = r
            /\ again' = Repeats("joingroup", args)
            /\ links' = LinksAfter(links, r.calls)
            /\ UNCHANGED <<experimenters, passwords, directory>>

LeaveGroup ==
    \E args \in GroupArgs :
        LET r == GroupRun("leavegroup", experimenters, links, args, FALSE)
        IN  /\ last' = r
            /\ again' = Repeats("leavegroup", args)
            /\ links' = LinksAfter(links, r.calls)
            /\ UNCHANGED <<experimenters, passwords, directory>>

(***************************************************************************)
(* email and list: the records of lookupExperimenters()                     *)
(***************************************************************************)
\* an entry of copyGroupExperimenterMap(): a link to a group, with the owner flag, or
\* a null entry
NullLink == [null |-> TRUE, parent |-> -1, owner |-> FALSE]
LinkEntries ==
    {NullLink} \cup
    {[null |-> FALSE, parent |-> g, owner |-> o] :
        g \in {SystemGroupId, UserGroupId, 2}, o \in BOOLEAN}

\* the record of alice (id 5) or bob (id 6)
Experimenter(id, middleName, email, map) ==
    [id |-> id,
     omeName    |-> IF id = 5 THEN "alice" ELSE "bob",
     firstName  |-> IF id = 5 THEN "Alice" ELSE "Bob",
     middleName |-> middleName,
     lastName   |-> IF id = 5 THEN "Liddell" ELSE "Stone",
     email      |-> email,
     map        |-> map]

\* s.join(pieces): the pieces with s between them
RECURSIVE Join(_, _)
Join(sep, texts) ==
    IF texts = <<>> THEN <<>>
    ELSE IF Len(texts) = 1 THEN Head(texts)
    ELSE Head(texts) \o <<sep>> \o Join(sep, Tail(texts))

\* unwrap(rstring) is false for a missing and for an empty string
Truthy(str) == str # None /\ str # ""

\* format_name: first name, middle name if there is one, last name
FormatName(exp) ==
    LET fn == <<exp.firstName>>
        mn == IF Truthy(exp.middleName) THEN <<" ", exp.middleName, " ">> ELSE <<" ">>
        ln == <<exp.lastName>>
    IN  fn \o mn \o ln

\* whether a user without email address is kept for the error channel
EmailSkippedAlways(ignore) == TRUE

EmailSkipped(ignore) == ~ignore

\* the record of one user with an email address
EmailRecord(exp, names) ==
    IF names
    THEN <<"\"">> \o FormatName(exp) \o <<"\"">> \o <<" <", exp.email, ">">>
    ELSE <<exp.email>>

\* one invocation of email
EmailRun(users, args) ==
    LET has     == [i \in DOMAIN users |-> Truthy(users[i].email)]
        skipped == IF EmailSkipped(args.ignore)
                   THEN SelectIdx(users, [i \in DOMAIN users |-> ~has[i]], 1)
                   ELSE <<>>
        records == SelectIdx([i \in DOMAIN users |-> EmailRecord(users[i], args.names)],
                             has, 1)
        out     == IF args.one THEN records ELSE <<Join(", ", records)>>
        err     == IF skipped # <<>>
                   THEN <<<<"Missing email addresses:">>>>
                        \o [i \in DOMAIN skipped |-> FormatName(skipped[i])]
                   ELSE <<>>
    IN  Ended("email", args, <<Call("lookupExperimenters", "", None, -1, <<>>, "ok")>>,
              out, err, "ok", 0)

EmailArgs == [names : BOOLEAN, one : BOOLEAN, ignore : BOOLEAN]

Email ==
    \E args \in EmailArgs :
        /\ last' = EmailRun(directory, args)
        /\ again' = Repeats("email", args)
        /\ UNCHANGED <<experimenters, links, passwords, directory>>

\* users.sort(lambda a, b: cmp(a.id.val, b.id.val)): insertion into a sorted list
RECURSIVE Insert(_, _)
Insert(user, sorted) ==
    IF sorted = <<>> THEN <<user>>
    ELSE IF user.id < Head(sorted).id THEN <<user>> \o sorted
    ELSE <<Head(sorted)>> \o Insert(user, Tail(sorted))

RECURSIVE SortById(_)
SortById(users) ==
    IF users = <<>> THEN <<>>
    ELSE Insert(Head(users), SortById(Tail(users)))

\* the loop over user.copyGroupExperimenterMap(): acc holds active, admin, member_of
\* and leader_of
ClassifyOwnerFirst(x, acc) ==
    IF x.null THEN acc
    ELSE IF x.owner
         THEN [acc EXCEPT !.leader_of = Append(@, <<IdStr[x.parent]>>)]
    ELSE IF x.parent = UserGroupId THEN [acc EXCEPT !.active = <<"Yes">>]
    ELSE IF x.parent = SystemGroupId THEN [acc EXCEPT !.admin = <<"Yes">>]
    ELSE [acc EXCEPT !.member_of = Append(@, <<IdStr[x.parent]>>)]

ClassifyNoOwner(x, acc) ==
    IF x.null THEN acc
    ELSE IF x.parent = UserGroupId THEN [acc EXCEPT !.active = <<"Yes">>]
    ELSE IF x.parent = SystemGroupId THEN [acc EXCEPT !.admin = <<"Yes">>]
    ELSE [acc EXCEPT !.member_of = Append(@, <<IdStr[x.parent]>>)]

Classify(x, acc) ==
    IF x.null THEN acc
    ELSE IF x.parent = UserGroupId THEN [acc EXCEPT !.active = <<"Yes">>]
    ELSE IF x.parent = SystemGroupId THEN [acc EXCEPT !.admin = <<"Yes">>]
    ELSE IF x.owner
         THEN [acc EXCEPT !.leader_of = Append(@, <<IdStr[x.parent]>>)]
    ELSE [acc EXCEPT !.member_of = Append(@, <<IdStr[x.parent]>>)]

RECURSIVE ClassifyAll(_, _)
ClassifyAll(map, acc) ==
    IF map = <<>> THEN acc ELSE ClassifyAll(Tail(map), Classify(Head(map), acc))

\* the columns of the table
ListHeader ==
    <<<<"id">>, <<"omeName">>, <<"firstName">>, <<"lastName">>, <<"email">>,
      <<"active">>, <<"admin">>, <<"member of">>, <<"leader of">>>>

\* the row of one user
ListRow(user) ==
    LET acc == ClassifyAll(user.map,
                           [active |-> <<>>, admin |-> <<>>,
                            member_of |-> <<>>, leader_of |-> <<>>])
    IN  <<<<IdStr[user.id]>>, <<user.omeName>>, <<user.firstName>>, <<user.lastName>>,
          IF Truthy(user.email) THEN <<user.email>> ELSE <<>>,
          acc.active, acc.admin, Join(",", acc.member_of), Join(",", acc.leader_of)>>

\* one invocation of list: the table, header first
ListRun(users) ==
    LET sorted == SortById(users)
    IN  Ended("list", <<>>,
              <<Call("lookupExperimenters", "", None, -1, <<>>, "ok"),
                Call("getSecurityRoles", "", None, -1, <<>>, "ok")>>,
              <<ListHeader>> \o [i \in DOMAIN sorted |-> ListRow(sorted[i])],
              <<>>, "ok", 0)

List ==
    /\ last' = ListRun(directory)
    /\ again' = Repeats("list", <<>>)
    /\ UNCHANGED <<experimenters, links, passwords, directory>>

\* the directories email is run against: alice and bob, either or both, in either order,
\* each with or without middle name and email address
EmailDirectories ==
    LET people(id) ==
            {Experimenter(id, m, e, <<>>) :
                m \in {None, "", "Q"},
                e \in {None, "", IF id = 5 THEN "alice@x" ELSE "bob@x"}}
    IN  {<<>>} \cup {<<a>> : a \in people(5) \cup people(6)}
        \cup {<<a, b>> : a \in people(5), b \in people(6)}
        \cup {<<b, a>> : a \in people(5), b \in people(6)}

\* the directories list is run against: alice and bob, either or both, in either order,
\* with at most MaxLinks map entries between them
ListDirectories ==
    LET maps(k) == [1..k -> LinkEntries]
        a(m) == Experimenter(5, None, "alice@x", m)
        b(m) == Experimenter(6, "Q", None, m)
        one  == UNION {{<<a(m)>>, <<b(m)>>} : m \in UNION {maps(k) : k \in 0..MaxLinks}}
        two  == UNION {UNION {{<<a(m), b(n)>>, <<b(n), a(m)>>} :
                                 m \in maps(p[1]), n \in maps(p[2])} :
                          p \in {q \in (0..MaxLinks) \X (0..MaxLinks) :
                                    q[1] + q[2] <= MaxLinks}}
    IN  {<<>>} \cup one \cup two

(***************************************************************************)
(* Initial state and specifications.                                        *)
(***************************************************************************)
NoInvocation == Ended("none", <<>>, <<>>, <<>>, <<>>, "ok", 0)

\* no invocation yet
InitClient == last = NoInvocation /\ again = FALSE

\* a server on which root exists and alice and bob may, and nobody is linked to the
\* groups g2, g3
Init ==
    /\ experimenters \in {e \in [DOMAIN ExperimenterId -> 0..1] : e["root"] = 1}
    /\ links = [p \in LinkGroups \X LinkUsers |-> "none"]
    /\ passwords = [l \in DOMAIN ExperimenterId |-> "pw1"]
    /\ directory = <<>>
    /\ InitClient

\* add is run for the login alice, on a server that holds her or not
InitAdd == Init /\ experimenters["bob"] = 0
NextAdd == Add
SpecAdd == InitAdd /\ [][NextAdd]_vars

NextPassword == Password
SpecPassword == Init /\ [][NextPassword]_vars

\* the group commands run against a server that holds root and bob but not alice,
\* where bob owns g3 and root is in no group yet
InitGroups ==
    /\ experimenters = [root |-> 1, alice |-> 0, bob |-> 1]
    /\ links = [p \in LinkGroups \X LinkUsers |->
                  IF p = <<3, ExperimenterId["bob"]>> THEN "owner" ELSE "none"]
    /\ passwords = [l \in DOMAIN ExperimenterId |-> "pw1"]
    /\ directory = <<>>
    /\ InitClient
NextGroups == JoinGroup \/ LeaveGroup
SpecGroups == InitGroups /\ [][NextGroups]_vars

\* the server state email and list do not read
InitRest ==
    /\ experimenters = [root |-> 1, alice |-> 1, bob |-> 1]
    /\ links = [p \in LinkGroups \X LinkUsers |-> "none"]
    /\ passwords = [l \in DOMAIN ExperimenterId |-> "pw1"]
    /\ InitClient

InitEmail == directory \in EmailDirectories /\ InitRest
NextEmail == Email
SpecEmail == InitEmail /\ [][NextEmail]_vars

InitList == directory \in ListDirectories /\ InitRest
NextList == List
SpecList == InitList /\ [][NextList]_vars

Next == Add \/ Password \/ JoinGroup \/ LeaveGroup \/ Email \/ List
Spec == Init /\ [][Next]_vars

\* a single invocation of any of the sub-commands: the server is in one of the states
\* the sub-commands are run against above, with any links of root to g2 and g3, and
\* the behaviour ends with the invocation
InitOnce ==
    \/ Init
    \/ /\ experimenters = [root |-> 1, alice |-> 0, bob |-> 1]
       /\ links \in {l \in [LinkGroups \X LinkUsers -> {"none", "member", "owner"}] :
                       /\ l[<<2, ExperimenterId["bob"]>>] = "none"
                       /\ l[<<3, ExperimenterId["bob"]>>] = "owner"
                       /\ \A g \in LinkGroups : l[<<g, ExperimenterId["alice"]>>] = "none"}
       /\ passwords = [l \in DOMAIN ExperimenterId |-> "pw1"]
       /\ directory = <<>>
       /\ InitClient
    \/ InitEmail
NextOnce ==
    \/ last = NoInvocation /\ Add
    \/ last = NoInvocation /\ Password
    \/ last = NoInvocation /\ JoinGroup
    \/ last = NoInvocation /\ LeaveGroup
    \/ last = NoInvocation /\ Email
    \/ last = NoInvocation /\ List
SpecOnce == InitOnce /\ [][NextOnce]_vars

(***************************************************************************)
(* Properties of add.                                                       *)
(***************************************************************************)
\* the positions of r's call log holding a call of one of the operations ops
CallsAt(r, ops) == {i \in DOMAIN r.calls : r.calls[i].op \in ops}

\* lookupExperimenter reported the login of this add invocation as existing
ReportedExisting(r) ==
    /\ r.cmd = "add"
    /\ \E i \in CallsAt(r, {"lookupExperimenter"}) :
         r.calls[i].str = r.args.username /\ r.calls[i].res = "ok"

\* C2: add without ignore_existing for a login that lookupExperimenter reports as
\* existing ends with exit code 3 and issues no create call, whatever the other
\* arguments are.
C2_ExistingLoginExit3 ==
    (ReportedExisting(last) /\ ~last.args.ignore_existing)
        => /\ last.status = "die"
           /\ last.code = 3
           /\ CallsAt(last, CreateOps) = {}

C2_Witness ==
    /\ ReportedExisting(last)
    /\ ~last.args.ignore_existing
    /\ last.args.userpassword # None
    /\ last.args.admin
    /\ last.code = 3

\* two consecutive add invocations with the same login, both with ignore_existing
SameLoginTwice ==
    /\ last.cmd = "add" /\ last'.cmd = "add"
    /\ last.args.username = last'.args.username
    /\ last.args.ignore_existing /\ last'.args.ignore_existing

\* C3 as stated: two consecutive add invocations with the same login and
\* ignore_existing both end with exit code 0, issue at most one create call between
\* them, and leave at most one record for the login.
C3_Original ==
    [][SameLoginTwice =>
         /\ last.status = "ok" /\ last'.status = "ok"
         /\ Cardinality(CallsAt(last, CreateOps)) + Cardinality(CallsAt(last', CreateOps)) <= 1
         /\ experimenters'[last'.args.username] <= 1]_vars

\* C3 as amended: when the first of two consecutive add invocations with the same
\* login and ignore_existing ends with exit code 0, the second ends with exit code 0
\* too and issues no create call, so at most one create call is issued between the
\* two; and whatever the first did, at most one create call of the two succeeds and
\* at most one record for the login exists afterwards.
C3_IdempotentAfterSuccess ==
    [][SameLoginTwice =>
         /\ last.status = "ok" =>
               /\ last'.status = "ok" /\ last'.code = 0
               /\ CallsAt(last', CreateOps) = {}
               /\ Cardinality(CallsAt(last, CreateOps)) <= 1
               /\ experimenters'[last'.args.username] = 1
         /\ ~(Created(last) /\ Created(last'))
         /\ experimenters'[last'.args.username] <= 1]_vars

C3_Witness ==
    /\ again
    /\ last.cmd = "add"
    /\ last.args.ignore_existing
    /\ last.status = "ok"
    /\ CallsAt(last, CreateOps) = {}
    /\ experimenters[last.args.username] = 1

\* add got as far as creating the user: the roles were fetched (user.py line 225)
ReachedCreation(r) == r.cmd = "add" /\ CallsAt(r, {"getSecurityRoles"}) # {}

\* C4: when add reaches user creation it issues exactly one create call,
\* createExperimenterWithPassword if a password was given and createExperimenter
\* otherwise; its primary group is the first member_of group as resolved and its
\* secondary groups are the other member_of groups in argument order, then the
\* default user group, then the system group if and only if the admin flag is set.
C4_CreateCallGroups ==
    ReachedCreation(last) =>
        LET m == last.args.member_of
            rest == [i \in 1..(Len(m) - 1) |-> GroupByName[m[i + 1]]]
        IN  /\ Cardinality(CallsAt(last, CreateOps)) = 1
            /\ \A i \in CallsAt(last, CreateOps) :
                 /\ last.calls[i].op =
                      (IF last.args.userpassword # None
                       THEN "createExperimenterWithPassword" ELSE "createExperimenter")
                 /\ last.calls[i].group = GroupByName[m[1]]
                 /\ last.calls[i].ids =
                      rest \o <<UserGroupId>>
                           \o (IF last.args.admin THEN <<SystemGroupId>> ELSE <<>>)

C4_Witness ==
    /\ ReachedCreation(last)
    /\ last.args.member_of = <<"g3", "g2">>
    /\ last.args.admin
    /\ last.args.userpassword # None
    /\ last.status = "ok"

(***************************************************************************)
(* Properties of password.                                                  *)
(***************************************************************************)
\* C1: no password-changing call is issued unless setSecurityPassword with the
\* caller's own credential returned successfully earlier in the same invocation; when
\* setSecurityPassword signals a security violation the command ends with exit code
\* 456 and issues neither change call, with or without a target username.
C1_VerifyBeforeChange ==
    /\ \A i \in CallsAt(last, ChangeOps) :
         \E j \in CallsAt(last, {"setSecurityPassword"}) :
             j < i /\ last.calls[j].res = "ok"
    /\ (\E j \in CallsAt(last, {"setSecurityPassword"}) :
             last.calls[j].res = "SecurityViolation")
         => /\ last.status = "die"
            /\ last.code = 456
            /\ CallsAt(last, ChangeOps) = {}

C1_Witness ==
    /\ last.cmd = "password"
    /\ last.args.username = "alice"
    /\ \E j \in CallsAt(last, {"setSecurityPassword"}) :
           last.calls[j].res = "SecurityViolation"
    /\ last.code = 456

(***************************************************************************)
(* Properties of joingroup and leavegroup.                                  *)
(***************************************************************************)
UserLookupOps == {"lookupExperimenter", "getExperimenter"}
GroupLookupOps == {"lookupGroup", "getGroup"}

\* r is a joingroup or leavegroup invocation whose user resolved
GroupCommand(r) ==
    /\ r.cmd \in {"joingroup", "leavegroup"}
    /\ \E i \in CallsAt(r, UserLookupOps) : r.calls[i].res = "ok"

\* the id of the user r acts on, and the groups its arguments resolved to
UidOf(r) == r.calls[CHOOSE i \in CallsAt(r, UserLookupOps) : TRUE].ids[1]
ResolvedIn(r) ==
    {r.calls[i].group : i \in {j \in CallsAt(r, GroupLookupOps) : r.calls[j].res = "ok"}}

\* the mutation calls of r on group g
MutationsOn(r, g) == {i \in CallsAt(r, MutationOps) : r.calls[i].group = g}

\* the line filter_groups writes when it skips group g
SkipLine(r, g) ==
    <<IdStr[UidOf(r)],
      IF r.cmd = "joingroup" THEN " is already " ELSE " is not ",
      IF r.args.as_owner THEN "owner of" ELSE "in",
      " group ", IdStr[g]>>

\* uid holds the relation to g on the server: a link, or an owner link
InRelation(lnk, g, uid, as_owner) ==
    IF as_owner THEN lnk[<<g, uid>>] = "owner" ELSE lnk[<<g, uid>>] # "none"

\* C5: a joingroup immediately followed by a joingroup with the same user, group and
\* role does nothing the second time: the second reports that the user is already in
\* (already owner of) the group and issues no addUsersToGroup or addOwnersToGroup call
\* for it; with the same arguments as the first it issues no such call at all.
C5_SecondJoinNoOp ==
    [][(/\ last.cmd = "joingroup" /\ GroupCommand(last)
        /\ last'.cmd = "joingroup" /\ GroupCommand(last')
        /\ UidOf(last) = UidOf(last')
        /\ last.args.as_owner = last'.args.as_owner)
       => /\ \A g \in ResolvedIn(last) \cap ResolvedIn(last') :
               /\ SkipLine(last', g) \in Range(last'.out)
               /\ MutationsOn(last', g) = {}
          /\ last.args = last'.args => CallsAt(last', MutationOps) = {}]_vars

C5_Witness ==
    /\ again
    /\ last.cmd = "joingroup" /\ GroupCommand(last)
    /\ last.args.as_owner
    /\ ResolvedIn(last) = {2, 3}
    /\ \A g \in ResolvedIn(last) : SkipLine(last, g) \in Range(last.out)
    /\ CallsAt(last, MutationOps) = {}

\* C6: leavegroup for a user and a group where the user is not in the targeted relation
\* (the members, or the owners with as_owner) issues no removeUsersFromGroup or
\* removeOwnersFromGroup call for that group, reports that the user is not in the
\* group, and does not end with a fatal error.
C6_LeaveNotInNoOp ==
    [][(last'.cmd = "leavegroup" /\ GroupCommand(last'))
       => \A g \in ResolvedIn(last') :
            ~InRelation(links, g, UidOf(last'), last'.args.as_owner)
               => /\ MutationsOn(last', g) = {}
                  /\ SkipLine(last', g) \in Range(last'.out)
                  /\ last'.status = "ok" /\ last'.code = 0]_vars

C6_Witness ==
    /\ last.cmd = "leavegroup" /\ GroupCommand(last)
    /\ last.args.as_owner
    /\ links[<<2, UidOf(last)>>] = "member"
    /\ SkipLine(last, 2) \in Range(last.out)
    /\ MutationsOn(last, 2) = {}
    /\ last.status = "ok"

\* C7: in joingroup and leavegroup a group argument that fails to resolve is dropped and
\* the resolved ones are still processed (each is either skipped with its message or
\* gets its mutation call, and the command does not end in a fatal error); if no group
\* argument resolves, the command ends with a fatal error and issues no mutation call.
C7_UnresolvedGroupsDropped ==
    GroupCommand(last) =>
        /\ ResolvedIn(last) # {} =>
              /\ last.status = "ok"
              /\ \A g \in ResolvedIn(last) :
                   SkipLine(last, g) \in Range(last.out) \/ MutationsOn(last, g) # {}
              /\ \A i \in CallsAt(last, MutationOps) : last.calls[i].group \in ResolvedIn(last)
        /\ ResolvedIn(last) = {} =>
              /\ last.status = "die"
              /\ last.code # 0
              /\ CallsAt(last, MutationOps) = {}

C7_Witness ==
    /\ GroupCommand(last)
    /\ last.args.GROUP = <<"nosuch", "g2">>
    /\ MutationsOn(last, 2) # {}
    /\ last.status = "ok"

(***************************************************************************)
(* Properties of email.                                                     *)
(***************************************************************************)
\* the pieces of text that name user u: first name, last name, email address
PiecesOf(u) == {u.firstName, u.lastName} \cup (IF Truthy(u.email) THEN {u.email} ELSE {})

\* "first [middle] last", single spaces between
DisplayName(u) ==
    IF Truthy(u.middleName)
    THEN <<u.firstName, " ", u.middleName, " ", u.lastName>>
    ELSE <<u.firstName, " ", u.lastName>>

\* C8: for every user returned by lookupExperimenters that has no email, email without
\* ignore reports the user's display name on the error channel and never includes the
\* user in the value output, and email with ignore mentions the user on neither
\* channel; every user that has an email appears in the value output exactly once and
\* never on the error channel.
C8_EmailChannels ==
    last.cmd = "email" =>
        \A i \in DOMAIN directory :
            LET u   == directory[i]
                out == Flatten(last.out)
                err == Flatten(last.err)
            IN  IF Truthy(u.email)
                THEN /\ Count(out, {u.email}) = 1
                     /\ last.args.names => Count(out, {u.firstName}) = 1
                     /\ Count(err, PiecesOf(u)) = 0
                ELSE /\ Count(out, PiecesOf(u)) = 0
                     /\ IF last.args.ignore
                        THEN Count(err, PiecesOf(u)) = 0
                        ELSE DisplayName(u) \in Range(last.err)

C8_Witness ==
    /\ last.cmd = "email"
    /\ ~last.args.ignore /\ last.args.names /\ last.args.one
    /\ Len(directory) = 2
    /\ Truthy(directory[1].email) /\ directory[2].email = None
    /\ Truthy(directory[2].middleName)
    /\ DisplayName(directory[2]) \in Range(last.err)
    /\ Len(last.out) = 1

(***************************************************************************)
(* Properties of list.                                                      *)
(***************************************************************************)
\* the rows of the table for user u: the lines after the header whose id column is u's
RowsOf(r, u) == {i \in 2..Len(r.out) : r.out[i][1] = <<IdStr[u.id]>>}

\* the ids in a comma-joined column
ColumnIds(col) == {col[i] : i \in {j \in DOMAIN col : col[j] # ","}}

\* the groups user u has a map entry for, and those where the entry has the owner flag
GroupsOf(u) == {u.map[i].parent : i \in {j \in DOMAIN u.map : ~u.map[j].null}}
OwnedBy(u) ==
    {u.map[i].parent : i \in {j \in DOMAIN u.map : ~u.map[j].null /\ u.map[j].owner}}

\* C9: in the list output, for every user, the active column is "Yes" exactly when the
\* user has a membership in the default user group, the admin column is "Yes" exactly
\* when the user has a membership in the system group, and neither the default group's
\* id nor the system group's id appears in the user's member-of column.
C9_ActiveAdminColumns ==
    last.cmd = "list" =>
        \A k \in DOMAIN directory :
            LET u == directory[k]
            IN  /\ Cardinality(RowsOf(last, u)) = 1
                /\ \A i \in RowsOf(last, u) :
                     LET row == last.out[i]
                     IN  /\ row[6] = (IF UserGroupId \in GroupsOf(u) THEN <<"Yes">> ELSE <<>>)
                         /\ row[7] = (IF SystemGroupId \in GroupsOf(u) THEN <<"Yes">> ELSE <<>>)
                         /\ IdStr[UserGroupId] \notin ColumnIds(row[8])
                         /\ IdStr[SystemGroupId] \notin ColumnIds(row[8])

C9_Witness ==
    /\ last.cmd = "list"
    /\ Len(directory) = 2
    /\ \E k \in DOMAIN directory :
         /\ GroupsOf(directory[k]) = {UserGroupId}
         /\ OwnedBy(directory[k]) = {UserGroupId}
         /\ \A i \in RowsOf(last, directory[k]) :
              last.out[i][6] = <<"Yes">> /\ last.out[i][7] = <<>> /\ last.out[i][8] = <<>>
    /\ \E k \in DOMAIN directory :
         /\ GroupsOf(directory[k]) = {SystemGroupId}
         /\ \A i \in RowsOf(last, directory[k]) :
              last.out[i][6] = <<>> /\ last.out[i][7] = <<"Yes">>

\* C10 as stated: the leader-of column of each user holds the id of every group in
\* which the user has a map entry with the owner flag set, and only those ids.
C10_Original ==
    last.cmd = "list" =>
        \A k \in DOMAIN directory :
            \A i \in RowsOf(last, directory[k]) :
                ColumnIds(last.out[i][9]) = {IdStr[g] : g \in OwnedBy(directory[k])}

\* C10 as amended: the leader-of column of each user holds the id of every group other
\* than the default user group and the system group in which the user has a map entry
\* with the owner flag set, and only those ids.
C10_LeaderOfColumn ==
    last.cmd = "list" =>
        \A k \in DOMAIN directory :
            /\ RowsOf(last, directory[k]) # {}
            /\ \A i \in RowsOf(last, directory[k]) :
                 ColumnIds(last.out[i][9]) =
                     {IdStr[g] : g \in OwnedBy(directory[k]) \ {UserGroupId, SystemGroupId}}

C10_Witness ==
    /\ last.cmd = "list"
    /\ \E k \in DOMAIN directory :
         /\ OwnedBy(directory[k]) = {SystemGroupId, 2}
         /\ \A i \in RowsOf(last, directory[k]) :
              last.out[i][9] = <<"2">> /\ last.out[i][7] = <<"Yes">>

(***************************************************************************)
(* Properties of the remote calls of an invocation.                         *)
(***************************************************************************)
\* the calls of r to the administrative service: all but the verification, which goes
\* to the session factory
AdminCallsAt(r) == {i \in DOMAIN r.calls : r.calls[i].op # "setSecurityPassword"}

\* the operations of r's calls, in the order of the calls
OpsOf(r) == [i \in DOMAIN r.calls |-> r.calls[i].op]

\* C11 as stated: an invocation of any sub-command makes exactly one call to the
\* administrative service and never makes the same call twice.
C11_Original ==
    last.cmd # "none" =>
        /\ Cardinality(AdminCallsAt(last)) = 1
        /\ \A i, j \in DOMAIN last.calls : last.calls[i] = last.calls[j] => i = j

\* C11 as amended: an invocation makes a short sequence of remote calls: email exactly
\* one (lookupExperimenters); list exactly two (lookupExperimenters, getSecurityRoles);
\* password one setSecurityPassword and then at most one change call; add one
\* lookupExperimenter, at most one lookupGroup per member_of name, at most one
\* getSecurityRoles and at most one create call, in that order; joingroup and
\* leavegroup one user lookup, at most one group lookup per GROUP argument and at most
\* one mutation call per argument that resolved. A create, change or verification
\* call that failed is the last call of its invocation.
C11_CallsPerInvocation ==
    LET n(ops) == Cardinality(CallsAt(last, ops))
        ops    == OpsOf(last)
        len    == Len(last.calls)
    IN  /\ last.cmd = "email" => ops = <<"lookupExperimenters">>
        /\ last.cmd = "list" => ops = <<"lookupExperimenters", "getSecurityRoles">>
        /\ last.cmd = "password" =>
             /\ len \in 1..2
             /\ ops[1] = "setSecurityPassword"
             /\ len = 2 => ops[2] \in ChangeOps
        /\ last.cmd = "add" =>
             /\ len >= 1
             /\ ops[1] = "lookupExperimenter"
             /\ n({"lookupExperimenter"}) = 1
             /\ n({"lookupGroup"}) <= Len(last.args.member_of)
             /\ n({"getSecurityRoles"}) <= 1
             /\ n(CreateOps) <= 1
             /\ len = n({"lookupExperimenter", "lookupGroup", "getSecurityRoles"} \cup CreateOps)
             /\ \A i, j \in DOMAIN ops :
                  (i < j /\ ops[i] \in CreateOps \cup {"getSecurityRoles"})
                      => ops[j] \in CreateOps /\ ops[i] \notin CreateOps
        /\ last.cmd \in {"joingroup", "leavegroup"} =>
             /\ len >= 1
             /\ ops[1] \in UserLookupOps
             /\ n(UserLookupOps) = 1
             /\ n(GroupLookupOps) <= Len(last.args.GROUP)
             /\ n(MutationOps) <=
                  Cardinality({i \in CallsAt(last, GroupLookupOps) : last.calls[i].res = "ok"})
             /\ len = n(UserLookupOps \cup GroupLookupOps \cup MutationOps)
        /\ \A i \in CallsAt(last, CreateOps \cup ChangeOps \cup {"setSecurityPassword"}) :
             last.calls[i].res # "ok" => i = len

C11_Witness ==
    /\ last.cmd = "add"
    /\ Len(last.args.member_of) = 2
    /\ OpsOf(last) = <<"lookupExperimenter", "lookupGroup", "lookupGroup",
                       "getSecurityRoles", "createExperimenter">>
    /\ last.status = "ok"

\* the lookupGroup calls of r that signalled invalid input
FailedGroupLookups(r) ==
    {i \in CallsAt(r, {"lookupGroup"}) : r.calls[i].res = "ApiUsageException"}

\* C12: in add, when a name of member_of fails to resolve (lookupGroup signals invalid
\* input), the command ends with exit code 68 and issues no create call; the name
\* that fails is looked up whenever lookupExperimenter did not find the login.
C12_UnresolvedGroupExit68 ==
    last.cmd = "add" =>
        /\ FailedGroupLookups(last) # {}
             => /\ last.status = "die"
                /\ last.code = 68
                /\ CallsAt(last, CreateOps) = {}
                /\ FailedGroupLookups(last) = {Len(last.calls)}
        /\ ( /\ ~ReportedExisting(last)
             /\ \E k \in DOMAIN last.args.member_of :
                   last.args.member_of[k] \notin DOMAIN GroupByName )
             => \E i \in FailedGroupLookups(last) :
                   last.calls[i].str \notin DOMAIN GroupByName

C12_Witness ==
    /\ last.cmd = "add"
    /\ last.args.member_of = <<"g2", "nosuch">>
    /\ OpsOf(last) = <<"lookupExperimenter", "lookupGroup", "lookupGroup">>
    /\ FailedGroupLookups(last) = {3}
    /\ last.code = 68

\* the exit code of add for each kind of failure of the create call
ExitOfCreateFailure(res) ==
    CASE res = "ConstraintViolation" -> 66
      [] res = "ValidationException" -> 67
      [] res = "SecurityViolation"   -> 68

\* C13: when the create call of add fails, the exit code follows from the kind of the
\* failure alone (constraint violation 66, other validation failure 67, security
\* violation 68), no success message is written, and the create call is not repeated.
C13_CreateFailureExit ==
    last.cmd = "add" =>
        \A i \in CallsAt(last, CreateOps) :
            last.calls[i].res # "ok"
                => /\ last.status = "die"
                   /\ last.code = ExitOfCreateFailure(last.calls[i].res)
                   /\ last.out = <<>>
                   /\ CallsAt(last, CreateOps) = {i}
                   /\ i = Len(last.calls)

C13_Witness ==
    /\ last.cmd = "add"
    /\ last.args.admin
    /\ last.args.member_of = <<"g3", "g2">>
    /\ \E i \in CallsAt(last, {"createExperimenterWithPassword"}) :
           last.calls[i].res = "ConstraintViolation"
    /\ last.code = 66
    /\ last.out = <<>>

(***************************************************************************)
(* Properties of the change call of password.                               *)
(***************************************************************************)
\* r is a password invocation whose verification succeeded
Verified(r) ==
    /\ r.cmd = "password"
    /\ \E j \in CallsAt(r, {"setSecurityPassword"}) : r.calls[j].res = "ok"

\* the one change call of r is op, and the message follows only its return
OneChange(r, op) ==
    /\ Cardinality(CallsAt(r, ChangeOps)) = 1
    /\ Cardinality(CallsAt(r, {op})) = 1
    /\ <<"Password changed">> \in Range(r.out)
         => \A i \in CallsAt(r, ChangeOps) : r.calls[i].res = "ok"

\* C14 as stated: after a successful verification, password issues exactly one change
\* call: changeUserPassword for the given login when a username was supplied,
\* changePassword when none was; "Password changed" is written only after that call
\* returned without failure.
C14_Original ==
    Verified(last) =>
        IF last.args.username # None
        THEN /\ OneChange(last, "changeUserPassword")
             /\ \A i \in CallsAt(last, ChangeOps) : last.calls[i].str = last.args.username
        ELSE OneChange(last, "changePassword")

\* C14 as amended: after a successful verification, password issues exactly one change
\* call: changeUserPassword for the given login when a non-empty username was
\* supplied, changePassword when no username or an empty one was; "Password changed"
\* is written only after that call returned without failure.
C14_OneChangeCall ==
    Verified(last) =>
        IF last.args.username \notin {None, ""}
        THEN /\ OneChange(last, "changeUserPassword")
             /\ \A i \in CallsAt(last, ChangeOps) : last.calls[i].str = last.args.username
        ELSE OneChange(last, "changePassword")

C14_Witness ==
    /\ Verified(last)
    /\ last.args.username = ""
    /\ OpsOf(last) = <<"setSecurityPassword", "changePassword">>
    /\ <<"Password changed">> \in Range(last.out)

(***************************************************************************)
(* Properties of the mutation calls of joingroup and leavegroup.            *)
(***************************************************************************)
\* the change r makes to group g is a no-op on a server with the links lnk
NoOpChange(lnk, r, g) ==
    InRelation(lnk, g, UidOf(r), r.args.as_owner) = (r.cmd = "joingroup")

\* C15: one joingroup or leavegroup invocation issues at most one mutation call for
\* any group, also when its argument list names a group more than once, and issues
\* none for a group for which the change is a no-op.
C15_OneMutationPerGroup ==
    [][GroupCommand(last') =>
          \A g \in ResolvedIn(last') :
              /\ Cardinality(MutationsOn(last', g)) <= 1
              /\ MutationsOn(last', g) # {} => ~NoOpChange(links, last', g)]_vars
====
